---- MODULE Spec2Model ----
(***************************************************************************)
(* Model of the Zerowriter Ink firmware updater                            *)
(* (src/utils/Firmware_Updater/updater_gui.py): the QueueWriter output     *)
(* sink, run_esptool_inproc, and the UpdaterApp session controller         *)
(* (validate_inputs, start_update, worker, _pump_queue, _finish_ok,        *)
(* _finish_fail).  Text is modelled as TLA+ strings, character by          *)
(* character; the ellipsis and the typographic apostrophe of the source's  *)
(* messages are written "..." and "'".                                     *)
(*                                                                         *)
(* The foreground is the single Tk event-loop thread: its handlers         *)
(* (start_update, _pump_queue) run one at a time.  A message box is modal: *)
(* while it is open the timer callbacks still run, clicks on the Update    *)
(* button do not, and the handler that opened it goes on when it is        *)
(* dismissed.  Each session's worker is a thread of its own whose steps    *)
(* interleave with the foreground at every queue operation.  One run of    *)
(* the while loop of _pump_queue is one step: it takes what the queue      *)
(* holds at that moment.                                                   *)
(***************************************************************************)
EXTENDS Integers, Sequences, FiniteSets, TLC

\* ------------------------------------------------------------------ bounds
MaxSessions == 2     \* accepted start requests in one run of the program
MaxWrites == 2       \* write calls the tool makes in one run of the program
MaxSinkWrites == 3   \* write calls in the stand-alone sink specification

Sessions == 1..MaxSessions

\* ------------------------------------------------------- program constants
FIXED_CHIP == "esp32"
FIXED_BAUD == "460800"
FLASH_OFFSET == "0x0000"
MIN_SIZE == 1024
HEAD_LEN == 256

\* ------------------------------------------------------------ text helpers
Min(a, b) == IF a < b THEN a ELSE b
Max(a, b) == IF a > b THEN a ELSE b

Ch(s, i) == SubSeq(s, i, i)

\* the slice s[:n]
Prefix(s, n) == SubSeq(s, 1, Min(n, Len(s)))

Contains(s, sub) ==
    \E i \in 1..(Len(s) - Len(sub) + 1) : SubSeq(s, i, i + Len(sub) - 1) = sub

\* index of the first occurrence of character c in s, 0 when there is none
IndexOf(s, c) ==
    IF \E i \in 1..Len(s) : Ch(s, i) = c
    THEN CHOOSE i \in 1..Len(s) :
            Ch(s, i) = c /\ \A k \in 1..(i - 1) : Ch(s, k) # c
    ELSE 0

IsSpace(c) == c \in {" ", "\t", "\r", "\n", "\f"}
IsDigit(c) == c \in {"0", "1", "2", "3", "4", "5", "6", "7", "8", "9"}

DigitVal(c) ==
    CASE c = "0" -> 0 [] c = "1" -> 1 [] c = "2" -> 2 [] c = "3" -> 3
      [] c = "4" -> 4 [] c = "5" -> 5 [] c = "6" -> 6 [] c = "7" -> 7
      [] c = "8" -> 8 [] c = "9" -> 9

\* int(): decimal value of a string of digits
RECURSIVE ToInt(_)
ToInt(d) ==
    IF Len(d) = 0 THEN 0
    ELSE 10 * ToInt(SubSeq(d, 1, Len(d) - 1)) + DigitVal(Ch(d, Len(d)))

\* the lower-case form of each upper-case letter
LowerMap ==
    ("A" :> "a") @@ ("B" :> "b") @@ ("C" :> "c") @@ ("D" :> "d") @@ ("E" :> "e") @@
    ("F" :> "f") @@ ("G" :> "g") @@ ("H" :> "h") @@ ("I" :> "i") @@ ("J" :> "j") @@
    ("K" :> "k") @@ ("L" :> "l") @@ ("M" :> "m") @@ ("N" :> "n") @@ ("O" :> "o") @@
    ("P" :> "p") @@ ("Q" :> "q") @@ ("R" :> "r") @@ ("S" :> "s") @@ ("T" :> "t") @@
    ("U" :> "u") @@ ("V" :> "v") @@ ("W" :> "w") @@ ("X" :> "x") @@ ("Y" :> "y") @@
    ("Z" :> "z")

LowerCh(c) == IF c \in DOMAIN LowerMap THEN LowerMap[c] ELSE c

\* str.lower()
RECURSIVE Lower(_)
Lower(s) ==
    IF Len(s) = 0 THEN "" ELSE LowerCh(Ch(s, 1)) \o Lower(SubSeq(s, 2, Len(s)))

\* str.rstrip("\r")
RECURSIVE RStripCR(_)
RStripCR(s) ==
    IF Len(s) > 0 /\ Ch(s, Len(s)) = "\r"
    THEN RStripCR(SubSeq(s, 1, Len(s) - 1))
    ELSE s

\* str.strip()
RECURSIVE RStrip(_)
RStrip(s) ==
    IF Len(s) > 0 /\ IsSpace(Ch(s, Len(s)))
    THEN RStrip(SubSeq(s, 1, Len(s) - 1))
    ELSE s

RECURSIVE LStrip(_)
LStrip(s) ==
    IF Len(s) > 0 /\ IsSpace(Ch(s, 1)) THEN LStrip(SubSeq(s, 2, Len(s))) ELSE s

Strip(s) == LStrip(RStrip(s))

\* ------------------------------------------------- queue messages (Output Line)
LineMsg(t) == [tag |-> "line", text |-> t, rc |-> 0]
DoneMsg(code) == [tag |-> "done", text |-> "__DONE__", rc |-> code]

\* mutant of IsDone: the text alone makes a message the terminal marker
IsDone_TextOnly(msg) == msg.text = "__DONE__"

\* isinstance(msg, tuple) and len(msg) == 2 and msg[0] == "__DONE__"
IsDone(msg) == msg.tag = "done" /\ msg.text = "__DONE__"

\* --------------------------------------------------------------- QueueWriter
\* mutant of SplitLines: empty segments are not emitted
RECURSIVE SplitLines_SkipEmpty(_)
SplitLines_SkipEmpty(buf) ==
    LET i == IndexOf(buf, "\n") IN
    IF i = 0 THEN <<>>
    ELSE (IF i = 1 THEN <<>> ELSE <<SubSeq(buf, 1, i - 1)>>)
           \o SplitLines_SkipEmpty(SubSeq(buf, i + 1, Len(buf)))

\* the while loop of QueueWriter.write: the complete segments of buf, in order
RECURSIVE SplitLines(_)
SplitLines(buf) ==
    LET i == IndexOf(buf, "\n") IN
    IF i = 0 THEN <<>>
    ELSE <<SubSeq(buf, 1, i - 1)>> \o SplitLines(SubSeq(buf, i + 1, Len(buf)))

\* what is left in _buf when the while loop ends
RECURSIVE SplitRest(_)
SplitRest(buf) ==
    LET i == IndexOf(buf, "\n") IN
    IF i = 0 THEN buf ELSE SplitRest(SubSeq(buf, i + 1, Len(buf)))

\* QueueWriter.write(s) on a sink whose _buf is buf: the lines put on the
\* queue and the new _buf
QW_write(buf, s) ==
    IF s = "" THEN [lines |-> <<>>, buf |-> buf]
    ELSE [lines |-> SplitLines(buf \o s), buf |-> SplitRest(buf \o s)]

\* QueueWriter.flush()
QW_flush(buf) ==
    IF buf # "" THEN [lines |-> <<buf>>, buf |-> ""]
    ELSE [lines |-> <<>>, buf |-> ""]

\* ------------------------------------------- _handle_progress_and_status
\* end of the maximal run of digits of s that starts at index i
DigitsEnd(s, i) ==
    CHOOSE j \in i..(Len(s) + 1) :
        /\ \A k \in i..(j - 1) : IsDigit(Ch(s, k))
        /\ (j = Len(s) + 1 \/ ~IsDigit(Ch(s, j)))

SpaceEnd(s, i) ==
    CHOOSE j \in i..(Len(s) + 1) :
        /\ \A k \in i..(j - 1) : IsSpace(Ch(s, k))
        /\ (j = Len(s) + 1 \/ ~IsSpace(Ch(s, j)))

\* PERCENT_RE = \((\d+)\s*%\)  matches at index i of s
PercentAt(s, i) ==
    /\ Ch(s, i) = "("
    /\ DigitsEnd(s, i + 1) > i + 1
    /\ LET k == SpaceEnd(s, DigitsEnd(s, i + 1)) IN
         k + 1 <= Len(s) /\ Ch(s, k) = "%" /\ Ch(s, k + 1) = ")"

\* PERCENT_RE.search(line): group(1) of the leftmost match, "" when no match
PERCENT_RE(line) ==
    IF \E i \in 1..Len(line) : PercentAt(line, i)
    THEN LET i == CHOOSE i \in 1..Len(line) :
                    PercentAt(line, i) /\ \A k \in 1..(i - 1) : ~PercentAt(line, k)
         IN SubSeq(line, i + 1, DigitsEnd(line, i + 1) - 1)
    ELSE ""

\* mutant of Clamp: no upper limit
Clamp_NoMax(pct) == Max(0, pct)

\* max(0, min(100, pct))
Clamp(pct) == Max(0, Min(100, pct))

\* mutant of SetPercent: the meter is left in the mode it is in
SetPercent_KeepMode(u, pct) == [u EXCEPT !.value = pct]

\* _set_percent(pct) applied to the presentation state u
SetPercent(u, pct) ==
    IF u.mode # "determinate"
    THEN [u EXCEPT !.anim = FALSE, !.mode = "determinate", !.value = pct]
    ELSE [u EXCEPT !.value = pct]

\* mutant of PhaseOf: the writing keywords are tested first
PhaseOf_WritingFirst(line) ==
    LET low == Lower(line) IN
    IF Contains(low, "writing at") \/ Contains(low, "wrote")
    THEN "Writing firmware..."
    ELSE IF Contains(low, "connecting") THEN "Connecting..."
    ELSE IF Contains(low, "hash of data verified") \/ Contains(low, "verified")
         THEN "Verifying..."
    ELSE ""

\* the status phase a line selects, "" when it selects none
PhaseOf(line) ==
    LET low == Lower(line) IN
    IF Contains(low, "connecting") THEN "Connecting..."
    ELSE IF Contains(low, "writing at") \/ Contains(low, "wrote")
         THEN "Writing firmware..."
    ELSE IF Contains(low, "hash of data verified") \/ Contains(low, "verified")
         THEN "Verifying..."
    ELSE ""

\* mutant of HandleProgressAndStatus: a line with a percentage is not classified
HandleProgressAndStatus_PercentOnly(u, line) ==
    LET m == PERCENT_RE(line)
    IN IF m # ""
       THEN SetPercent([u EXCEPT !.saw = TRUE], Clamp(ToInt(m)))
       ELSE IF PhaseOf(line) # "" THEN [u EXCEPT !.status = PhaseOf(line)] ELSE u

\* _handle_progress_and_status(line) applied to the presentation state u
HandleProgressAndStatus(u, line) ==
    LET m == PERCENT_RE(line)
        u1 == IF m # ""
              THEN SetPercent([u EXCEPT !.saw = TRUE], Clamp(ToInt(m)))
              ELSE u
    IN IF PhaseOf(line) # "" THEN [u1 EXCEPT !.status = PhaseOf(line)] ELSE u1

\* _finish_ok up to the message box
FinishOk(u) ==
    [u EXCEPT !.anim = FALSE, !.mode = "determinate", !.value = 100,
              !.btn = "normal", !.status = "Update complete.",
              !.log = @ \o <<"\n=== UPDATE COMPLETE ===\n">>]

\* mutant of FinishFail: the meter keeps the last percentage shown
FinishFail_KeepValue(u) ==
    [u EXCEPT !.anim = FALSE, !.mode = "determinate",
              !.btn = "normal", !.status = "Update failed.",
              !.log = @ \o <<"\n=== UPDATE FAILED ===\n">>]

\* _finish_fail up to the message box
FinishFail(u) ==
    [u EXCEPT !.anim = FALSE, !.mode = "determinate", !.value = 0,
              !.btn = "normal", !.status = "Update failed.",
              !.log = @ \o <<"\n=== UPDATE FAILED ===\n">>]

\* rc == 0 selects _finish_ok, anything else _finish_fail
Finish(u, code) == IF code = 0 THEN FinishOk(u) ELSE FinishFail(u)

\* whether a drained text message is appended to the log ("if line:")
Logged(line) == line # ""

\* mutant of PumpLine: the line is appended to the log twice
PumpLine_Twice(u, msg) ==
    LET line == RStripCR(msg.text) IN
    IF Logged(line)
    THEN HandleProgressAndStatus(
             [u EXCEPT !.log = @ \o <<line \o "\n", line \o "\n">>], line)
    ELSE u

\* the body of the while loop of _pump_queue for one text message
PumpLine(u, msg) ==
    LET line == RStripCR(msg.text) IN
    IF Logged(line)
    THEN HandleProgressAndStatus([u EXCEPT !.log = @ \o <<line \o "\n">>], line)
    ELSE u

\* the while loop of _pump_queue over the messages msgs found in the queue:
\* the presentation state, the messages taken, and whether (and with which
\* code) a terminal marker ended the loop
RECURSIVE Drain(_, _, _)
Drain(u, msgs, taken) ==
    IF msgs = <<>> THEN [ui |-> u, taken |-> taken, done |-> FALSE, rc |-> 0]
    ELSE IF IsDone(Head(msgs))
         THEN [ui |-> Finish(u, Head(msgs).rc), taken |-> Append(taken, Head(msgs)),
               done |-> TRUE, rc |-> Head(msgs).rc]
    ELSE Drain(PumpLine(u, Head(msgs)), Tail(msgs), Append(taken, Head(msgs)))

\* ------------------------------------------------------------ environment
\* the files of the model's file system: size in bytes and first bytes
Files == {"/fw.bin", "/page.bin", "/small.bin", "/locked.bin"}
FileSize(p) == IF p = "/small.bin" THEN 500 ELSE 2000
FileHead(p) == IF p = "/page.bin" THEN "<!DOCTYPE html><html>" ELSE "\t\f binary"
Readable(p) == p # "/locked.bin"
Home == "/home/user"
Cwd == "/cwd"

\* what the user can have typed or selected when pressing Update
PortInputs == {"", "COM3"}
FwInputs == {"/fw.bin", "/page.bin"}

\* the entry fields tried in the stand-alone validation specification
ValPorts == {"", " ", "COM3", " COM3 "}
ValFws == {"", " ", "/fw.bin", " /fw.bin", "/page.bin", "/small.bin",
           "/locked.bin", "~/fw.bin"}

\* what the tool can print in one write call (each holds at most one newline,
\* so that a write call puts at most one line): a status line, a blank line,
\* and a progress report that ends in a carriage return and no newline
ToolWrites == {"Connecting...\n", "\n", "Writing at 0x1000 (50 %)\r"}

\* how a call of esptool.main can end
ToolOutcomes ==
    {[kind |-> "return", code |-> 0]}
    \cup {[kind |-> "exit_none", code |-> 0]}
    \cup {[kind |-> "exit_int", code |-> c] : c \in {0, 7}}
    \cup {[kind |-> "exit_other", code |-> 0]}
    \cup {[kind |-> "exception", code |-> 0]}
    \cup {[kind |-> "base_exception", code |-> 0]}

\* Path.exists()
Exists(p) == p \in Files

\* Path.expanduser()
ExpandUser(p) ==
    IF p = "~" THEN Home
    ELSE IF Prefix(p, 2) = "~/" THEN Home \o SubSeq(p, 2, Len(p))
    ELSE p

\* Path.resolve() (no symbolic links, no dot segments in the model's paths)
Resolve(p) == IF Prefix(p, 1) = "/" THEN p ELSE Cwd \o "/" \o p

\* looks_like_binary(path)
looks_like_binary(p) ==
    IF ~Exists(p) \/ FileSize(p) < MIN_SIZE THEN FALSE
    ELSE IF ~Readable(p) THEN FALSE
    ELSE LET head == Lower(Prefix(FileHead(p), HEAD_LEN)) IN
         ~(Contains(head, "<html") \/ Contains(head, "<!doctype html"))

MsgNoTool == "This app is missing bundled dependencies (esptool/pyserial)."
MsgNoPort == "No serial port selected."
MsgNoFw == "No firmware file selected."
MsgNotFound(p) == "Firmware not found:\n" \o p
MsgNotBinary(p) == "File doesn't look like a valid firmware binary:\n" \o p

\* mutant of validate_inputs: the port is not checked
validate_inputs_NoPort(avail, port_var, fw_var) ==
    LET fw == Strip(fw_var)
        p == ExpandUser(fw)
    IN IF ~avail THEN [ok |-> FALSE, msg |-> MsgNoTool]
       ELSE IF fw = "" THEN [ok |-> FALSE, msg |-> MsgNoFw]
       ELSE IF ~Exists(p) THEN [ok |-> FALSE, msg |-> MsgNotFound(p)]
       ELSE IF ~looks_like_binary(p) THEN [ok |-> FALSE, msg |-> MsgNotBinary(p)]
       ELSE [ok |-> TRUE, msg |-> ""]

\* mutant of validate_inputs: the firmware field is checked before the port
validate_inputs_FwFirst(avail, port_var, fw_var) ==
    LET port == Strip(port_var)
        fw == Strip(fw_var)
        p == ExpandUser(fw)
    IN IF ~avail THEN [ok |-> FALSE, msg |-> MsgNoTool]
       ELSE IF fw = "" THEN [ok |-> FALSE, msg |-> MsgNoFw]
       ELSE IF port = "" THEN [ok |-> FALSE, msg |-> MsgNoPort]
       ELSE IF ~Exists(p) THEN [ok |-> FALSE, msg |-> MsgNotFound(p)]
       ELSE IF ~looks_like_binary(p) THEN [ok |-> FALSE, msg |-> MsgNotBinary(p)]
       ELSE [ok |-> TRUE, msg |-> ""]

\* validate_inputs() with esptool_available() = avail and the two entry fields
validate_inputs(avail, port_var, fw_var) ==
    LET port == Strip(port_var)
        fw == Strip(fw_var)
        p == ExpandUser(fw)
    IN IF ~avail THEN [ok |-> FALSE, msg |-> MsgNoTool]
       ELSE IF port = "" THEN [ok |-> FALSE, msg |-> MsgNoPort]
       ELSE IF fw = "" THEN [ok |-> FALSE, msg |-> MsgNoFw]
       ELSE IF ~Exists(p) THEN [ok |-> FALSE, msg |-> MsgNotFound(p)]
       ELSE IF ~looks_like_binary(p) THEN [ok |-> FALSE, msg |-> MsgNotBinary(p)]
       ELSE [ok |-> TRUE, msg |-> ""]

\* the argument list start_update builds
BuildArgs(port_var, fw_var) ==
    <<"--chip", FIXED_CHIP, "-p", Strip(port_var), "-b", FIXED_BAUD,
      "write_flash", FLASH_OFFSET, Resolve(ExpandUser(fw_var))>>

\* " ".join(args)
RECURSIVE JoinSp(_)
JoinSp(a) ==
    IF Len(a) = 0 THEN ""
    ELSE IF Len(a) = 1 THEN a[1]
    ELSE a[1] \o " " \o JoinSp(Tail(a))

\* ------------------------------------------------------- run_esptool_inproc
ErrRuntime == "ERROR: esptool runtime exception: boom"

\* the end of run_esptool_inproc when esptool.main ends with outcome o and the
\* sink holds buf: the text put on the queue, the sink's buffer, whether the
\* function returns (and what) or lets the exception through
ToolEnd(o, buf) ==
    CASE o.kind = "return" ->
           [puts |-> QW_flush(buf).lines, buf |-> QW_flush(buf).buf,
            flushed |-> TRUE, returns |-> TRUE, rc |-> 0]
      [] o.kind = "exit_none" ->
           [puts |-> QW_flush(buf).lines, buf |-> QW_flush(buf).buf,
            flushed |-> TRUE, returns |-> TRUE, rc |-> 0]
      [] o.kind = "exit_int" ->
           [puts |-> QW_flush(buf).lines, buf |-> QW_flush(buf).buf,
            flushed |-> TRUE, returns |-> TRUE, rc |-> o.code]
      [] o.kind = "exit_other" ->
           [puts |-> QW_flush(buf).lines, buf |-> QW_flush(buf).buf,
            flushed |-> TRUE, returns |-> TRUE, rc |-> 1]
      [] o.kind = "exception" ->
           [puts |-> <<ErrRuntime>>, buf |-> buf,
            flushed |-> FALSE, returns |-> TRUE, rc |-> 1]
      [] o.kind = "base_exception" ->
           [puts |-> <<>>, buf |-> buf,
            flushed |-> FALSE, returns |-> FALSE, rc |-> 1]

\* no call of run_esptool_inproc on its own is under way
NoOutcome == [kind |-> "none", code |-> 0]

\* -------------------------------------------------------------------- state
VARIABLES
    update_btn,      \* state of the Update button: "normal" or "disabled"
    progress_mode,   \* "determinate" or "indeterminate"
    progress_anim,   \* TRUE between progress.start() and progress.stop()
    progress_value,  \* progress["value"]
    saw_percent,     \* self._saw_percent
    status_var,      \* self.status_var
    log,             \* the log widget: the strings appended, in order
    q,               \* self._q: 0 for None, else the identity of the queue
    pump_jobs,       \* number of after(50, _pump_queue) callbacks not yet run
    modal,           \* stack of open message boxes (innermost last)
    fgpc,            \* "idle", or "start_pump": start_update is about to call _pump_queue
    queues,          \* content of the queue of each session
    wpc,             \* position of each session's worker thread
    wq,              \* out_q of each worker's run_esptool_inproc (0 for None)
    wbuf,            \* _buf of each worker's QueueWriter
    wrc,             \* rc of each worker
    nsess,           \* number of accepted start requests
    nwrites,         \* number of write calls made by the tool
    req,             \* history: the inputs of each accepted start request
    wargs,           \* history: args handed to each worker
    written,         \* history: everything the tool wrote in each session
    wlines,          \* history: the lines QueueWriter.write put, per session
    wflushed,        \* history: the text QueueWriter.flush put, per session
    emitted,         \* history: every message put on each queue
    taken,           \* history: every message _pump_queue got from each queue
    fin,             \* history: the _finish_ok/_finish_fail calls of each session
    tool_end         \* run_esptool_inproc on its own: how its call is going to end

uivars == <<update_btn, progress_mode, progress_anim, progress_value,
            saw_percent, status_var, log>>
fgvars == <<q, pump_jobs, modal, fgpc>>
wvars == <<wpc, wq, wbuf, wrc, nwrites, written, wlines, wflushed, tool_end>>
vars == <<update_btn, progress_mode, progress_anim, progress_value,
          saw_percent, status_var, log, q, pump_jobs, modal, fgpc, queues,
          wpc, wq, wbuf, wrc, nsess, nwrites, req, wargs, written, wlines,
          wflushed, emitted, taken, fin, tool_end>>

\* the presentation state as one record
UI == [btn |-> update_btn, mode |-> progress_mode, anim |-> progress_anim,
       value |-> progress_value, saw |-> saw_percent, status |-> status_var,
       log |-> log]

SetUI(u) ==
    /\ update_btn' = u.btn
    /\ progress_mode' = u.mode
    /\ progress_anim' = u.anim
    /\ progress_value' = u.value
    /\ saw_percent' = u.saw
    /\ status_var' = u.status
    /\ log' = u.log

NoReq == [avail |-> FALSE, port |-> "", fw |-> ""]

\* the presentation state is u
UIIs(u) ==
    /\ update_btn = u.btn
    /\ progress_mode = u.mode
    /\ progress_anim = u.anim
    /\ progress_value = u.value
    /\ saw_percent = u.saw
    /\ status_var = u.status
    /\ log = u.log

\* the widgets as _build_ui and __init__ leave them
FreshUI ==
    [btn |-> "normal", mode |-> "determinate", anim |-> FALSE, value |-> 0,
     saw |-> FALSE, status |-> "Ready.", log |-> <<>>]

InitUI == UIIs(FreshUI)

\* UpdaterApp.__init__
Init ==
    /\ InitUI
    /\ q = 0
    /\ pump_jobs = 0
    /\ modal = <<>>
    /\ fgpc = "idle"
    /\ queues = [s \in Sessions |-> <<>>]
    /\ wpc = [s \in Sessions |-> "none"]
    /\ wq = [s \in Sessions |-> 0]
    /\ wbuf = [s \in Sessions |-> ""]
    /\ wrc = [s \in Sessions |-> 0]
    /\ nsess = 0
    /\ nwrites = 0
    /\ req = [s \in Sessions |-> NoReq]
    /\ wargs = [s \in Sessions |-> <<>>]
    /\ written = [s \in Sessions |-> ""]
    /\ wlines = [s \in Sessions |-> <<>>]
    /\ wflushed = [s \in Sessions |-> ""]
    /\ emitted = [s \in Sessions |-> <<>>]
    /\ taken = [s \in Sessions |-> <<>>]
    /\ fin = [s \in Sessions |-> <<>>]
    /\ tool_end = NoOutcome

\* ---------------------------------------------------------------- foreground
\* mutant of BtnAfterStart: the button stays enabled during the session
BtnAfterStart_Normal == "normal"

\* the state start_update gives the Update button
BtnAfterStart == "disabled"

\* mutant of StartLog: the log is emptied when a session starts
StartLog_Cleared(old, args) ==
    <<"\n=== UPDATE START ===\n", "Command:\n  esptool " \o JoinSp(args) \o "\n\n">>

\* the log after the two append_log calls of start_update
StartLog(old, args) ==
    old \o <<"\n=== UPDATE START ===\n", "Command:\n  esptool " \o JoinSp(args) \o "\n\n">>

\* the widgets after start_update, which hands args to the worker
StartUI(u, args) ==
    [u EXCEPT !.btn = BtnAfterStart,
              !.mode = "indeterminate",
              !.anim = TRUE,
              !.saw = FALSE,
              !.status = "Updating... do not unplug the device.",
              !.log = StartLog(@, args)]

\* a click on the Update button reaches start_update: the button is enabled
\* and no message box holds the grab, and the event loop is between handlers
CanClick == fgpc = "idle" /\ modal = <<>> /\ update_btn = "normal"

\* start_update up to and including Thread.start(); the call of _pump_queue
\* that ends it is the step PumpQueue taken from fgpc = "start_pump"
StartUpdate ==
    /\ CanClick
    /\ \E avail \in BOOLEAN, port_var \in PortInputs, fw_var \in FwInputs :
         \E v \in {validate_inputs(avail, port_var, fw_var)},
            s \in {nsess + 1}, args \in {BuildArgs(port_var, fw_var)} :
            IF ~v.ok
            THEN /\ modal' = Append(modal, [kind |-> "error", msg |-> v.msg])
                 /\ UNCHANGED <<uivars, q, pump_jobs, fgpc, queues, wvars,
                                nsess, req, wargs, emitted, taken, fin>>
            ELSE /\ nsess < MaxSessions
                 /\ SetUI(StartUI(UI, args))
                 /\ q' = s
                 /\ queues' = [queues EXCEPT ![s] = <<>>]
                 /\ wpc' = [wpc EXCEPT ![s] = "spawned"]
                 /\ wargs' = [wargs EXCEPT ![s] = args]
                 /\ req' = [req EXCEPT ![s] = [avail |-> avail, port |-> port_var,
                                               fw |-> fw_var]]
                 /\ nsess' = s
                 /\ fgpc' = "start_pump"
                 /\ UNCHANGED <<pump_jobs, modal, wq, wbuf, wrc, nwrites, written,
                                wlines, wflushed, emitted, taken, fin, tool_end>>

\* mutant of AfterPoll: two polls are scheduled
AfterPoll_Twice(jobs) == jobs + 2

\* mutant of AfterPoll: no further poll is scheduled
AfterPoll_Dropped(jobs) == jobs

\* the poll _pump_queue schedules when it found the queue empty
AfterPoll(jobs) == jobs + 1

\* _pump_queue, called by start_update (fgpc = "start_pump") or by the timer
PumpQueue ==
    /\ fgpc = "start_pump" \/ (fgpc = "idle" /\ pump_jobs > 0)
    /\ LET jobs == IF fgpc = "start_pump" THEN pump_jobs ELSE pump_jobs - 1 IN
       IF q = 0
       THEN /\ pump_jobs' = jobs
            /\ fgpc' = "idle"
            /\ UNCHANGED <<uivars, q, modal, queues, taken, fin>>
       ELSE \E d \in {Drain(UI, queues[q], <<>>)} :
            /\ SetUI(d.ui)
            /\ taken' = [taken EXCEPT ![q] = @ \o d.taken]
            /\ queues' = [queues EXCEPT ![q] = SubSeq(@, Len(d.taken) + 1, Len(@))]
            /\ fgpc' = "idle"
            /\ IF d.done
               THEN /\ modal' = Append(modal, [kind |-> IF d.rc = 0 THEN "ok" ELSE "fail",
                                               msg |-> ""])
                    /\ fin' = [fin EXCEPT ![q] = Append(@, IF d.rc = 0 THEN "ok" ELSE "fail")]
                    /\ pump_jobs' = jobs
                    /\ UNCHANGED q
               ELSE /\ pump_jobs' = AfterPoll(jobs)
                    /\ UNCHANGED <<q, modal, fin>>
    /\ UNCHANGED <<wvars, nsess, req, wargs, emitted>>

\* the user closes the innermost message box: messagebox.showerror/showinfo
\* returns; in _pump_queue the statement after _finish_ok/_finish_fail is
\* self._q = None
DismissDialog ==
    /\ fgpc = "idle"
    /\ modal # <<>>
    /\ modal' = SubSeq(modal, 1, Len(modal) - 1)
    /\ q' = IF modal[Len(modal)].kind = "error" THEN q ELSE 0
    /\ UNCHANGED <<uivars, pump_jobs, fgpc, queues, wvars, nsess, req, wargs,
                   emitted, taken, fin>>

\* -------------------------------------------------------------------- worker
\* mutant of Put: the queue hands out the newest message first
Put_Lifo(id, msgs) ==
    /\ queues' = [queues EXCEPT ![id] = msgs \o @]
    /\ emitted' = [emitted EXCEPT ![id] = @ \o msgs]

\* queue.put of the messages msgs on the queue with identity id
Put(id, msgs) ==
    /\ queues' = [queues EXCEPT ![id] = @ \o msgs]
    /\ emitted' = [emitted EXCEPT ![id] = @ \o msgs]

RECURSIVE AsLines(_)
AsLines(texts) ==
    IF texts = <<>> THEN <<>> ELSE <<LineMsg(Head(texts))>> \o AsLines(Tail(texts))

\* the thread starts: worker() evaluates self._q and enters run_esptool_inproc,
\* which creates the QueueWriter and calls esptool.main
WorkerBegin(s) ==
    /\ wpc[s] = "spawned"
    /\ wq' = [wq EXCEPT ![s] = q]
    /\ wbuf' = [wbuf EXCEPT ![s] = ""]
    /\ wpc' = [wpc EXCEPT ![s] = IF q = 0 THEN "dead" ELSE "tool"]
    /\ UNCHANGED <<uivars, fgvars, queues, wrc, nsess, nwrites, req, wargs,
                   written, wlines, wflushed, emitted, taken, fin, tool_end>>

\* the tool prints text: QueueWriter.write(text)
WorkerWrite(s) ==
    /\ wpc[s] = "tool"
    /\ nwrites < MaxWrites
    /\ \E text \in ToolWrites :
         \E w \in {QW_write(wbuf[s], text)} :
         /\ wbuf' = [wbuf EXCEPT ![s] = w.buf]
         /\ Put(wq[s], AsLines(w.lines))
         /\ written' = [written EXCEPT ![s] = @ \o text]
         /\ wlines' = [wlines EXCEPT ![s] = @ \o w.lines]
    /\ nwrites' = nwrites + 1
    /\ UNCHANGED <<uivars, fgvars, wpc, wq, wrc, nsess, req, wargs, wflushed,
                   taken, fin, tool_end>>

\* esptool.main ends and run_esptool_inproc returns rc to worker(), or the
\* exception leaves run_esptool_inproc and ends the thread
WorkerEnd(s) ==
    /\ wpc[s] = "tool"
    /\ \E o \in ToolOutcomes :
         \E e \in {ToolEnd(o, wbuf[s])} :
         /\ wbuf' = [wbuf EXCEPT ![s] = e.buf]
         /\ Put(wq[s], AsLines(e.puts))
         /\ wflushed' = [wflushed EXCEPT ![s] = IF e.flushed THEN wbuf[s] ELSE ""]
         /\ wrc' = [wrc EXCEPT ![s] = e.rc]
         /\ wpc' = [wpc EXCEPT ![s] = IF e.returns THEN "returned" ELSE "dead"]
    /\ UNCHANGED <<uivars, fgvars, wq, nsess, nwrites, req, wargs, written,
                   wlines, taken, fin, tool_end>>

\* worker(): self._q.put(("__DONE__", rc)); self._q is read again here
WorkerPost(s) ==
    /\ wpc[s] = "returned"
    /\ IF q = 0
       THEN /\ wpc' = [wpc EXCEPT ![s] = "dead"]
            /\ UNCHANGED <<queues, emitted>>
       ELSE /\ wpc' = [wpc EXCEPT ![s] = "done"]
            /\ Put(q, <<DoneMsg(wrc[s])>>)
    /\ UNCHANGED <<uivars, fgvars, wq, wbuf, wrc, nsess, nwrites, req, wargs,
                   written, wlines, wflushed, taken, fin, tool_end>>

\* ------------------------------------------------------------- specification
Next ==
    \/ StartUpdate
    \/ PumpQueue
    \/ DismissDialog
    \/ \E s \in Sessions : WorkerBegin(s)
    \/ \E s \in Sessions : WorkerWrite(s)
    \/ \E s \in Sessions : WorkerEnd(s)
    \/ \E s \in Sessions : WorkerPost(s)

Spec == Init /\ [][Next]_vars

\* the text the tool printed to produce the lines: each ends with a newline
RECURSIVE JoinNL(_)
JoinNL(lines) ==
    IF lines = <<>> THEN "" ELSE Head(lines) \o "\n" \o JoinNL(Tail(lines))

\* ------------------------------------------- the output sink on its own
\* what a caller can hand to one write call
SinkWrites == {"", "a", "\n", "ab", "a\n", "\nb", "\n\n", "a\n\nb\n"}

\* QueueWriter.__init__ on a fresh queue (queue 1), outside any session
SinkInit ==
    /\ InitUI
    /\ q = 0
    /\ pump_jobs = 0
    /\ modal = <<>>
    /\ fgpc = "sink"
    /\ queues = [s \in Sessions |-> <<>>]
    /\ wpc = [s \in Sessions |-> IF s = 1 THEN "sink" ELSE "none"]
    /\ wq = [s \in Sessions |-> IF s = 1 THEN 1 ELSE 0]
    /\ wbuf = [s \in Sessions |-> ""]
    /\ wrc = [s \in Sessions |-> 0]
    /\ nsess = 0
    /\ nwrites = 0
    /\ req = [s \in Sessions |-> NoReq]
    /\ wargs = [s \in Sessions |-> <<>>]
    /\ written = [s \in Sessions |-> ""]
    /\ wlines = [s \in Sessions |-> <<>>]
    /\ wflushed = [s \in Sessions |-> ""]
    /\ emitted = [s \in Sessions |-> <<>>]
    /\ taken = [s \in Sessions |-> <<>>]
    /\ fin = [s \in Sessions |-> <<>>]
    /\ tool_end = NoOutcome

\* one call of QueueWriter.write
SinkWrite ==
    /\ wpc[1] = "sink"
    /\ nwrites < MaxSinkWrites
    /\ \E text \in SinkWrites :
         \E w \in {QW_write(wbuf[1], text)} :
         /\ wbuf' = [wbuf EXCEPT ![1] = w.buf]
         /\ Put(wq[1], AsLines(w.lines))
         /\ written' = [written EXCEPT ![1] = @ \o text]
         /\ wlines' = [wlines EXCEPT ![1] = @ \o w.lines]
    /\ nwrites' = nwrites + 1
    /\ UNCHANGED <<uivars, fgvars, wpc, wq, wrc, nsess, req, wargs, wflushed,
                   taken, fin, tool_end>>

\* the call of QueueWriter.flush that ends the sequence of writes
SinkFlush ==
    /\ wpc[1] = "sink"
    /\ \E f \in {QW_flush(wbuf[1])} :
         /\ wbuf' = [wbuf EXCEPT ![1] = f.buf]
         /\ Put(wq[1], AsLines(f.lines))
    /\ wflushed' = [wflushed EXCEPT ![1] = wbuf[1]]
    /\ wpc' = [wpc EXCEPT ![1] = "flushed"]
    /\ UNCHANGED <<uivars, fgvars, wq, wrc, nsess, nwrites, req, wargs, written,
                   wlines, taken, fin, tool_end>>

SinkNext == SinkWrite \/ SinkFlush

SinkSpec == SinkInit /\ [][SinkNext]_vars

\* ---------------------------------------------- validate_inputs on its own
\* the entry fields and the availability of the tool when Update is pressed
ValInit ==
    /\ InitUI
    /\ q = 0
    /\ pump_jobs = 0
    /\ modal = <<>>
    /\ fgpc = "validate"
    /\ queues = [s \in Sessions |-> <<>>]
    /\ wpc = [s \in Sessions |-> "none"]
    /\ wq = [s \in Sessions |-> 0]
    /\ wbuf = [s \in Sessions |-> ""]
    /\ wrc = [s \in Sessions |-> 0]
    /\ nsess = 0
    /\ nwrites = 0
    /\ \E avail \in BOOLEAN, port_var \in ValPorts, fw_var \in ValFws :
         req = [s \in Sessions |->
                  IF s = 1 THEN [avail |-> avail, port |-> port_var, fw |-> fw_var]
                  ELSE NoReq]
    /\ wargs = [s \in Sessions |-> <<>>]
    /\ written = [s \in Sessions |-> ""]
    /\ wlines = [s \in Sessions |-> <<>>]
    /\ wflushed = [s \in Sessions |-> ""]
    /\ emitted = [s \in Sessions |-> <<>>]
    /\ taken = [s \in Sessions |-> <<>>]
    /\ fin = [s \in Sessions |-> <<>>]
    /\ tool_end = NoOutcome

\* the first four lines of start_update: validate_inputs, and the error box
\* when it fails; when it succeeds the argument list is built
ValApply ==
    /\ fgpc = "validate"
    /\ \E v \in {validate_inputs(req[1].avail, req[1].port, req[1].fw)} :
         IF ~v.ok
         THEN /\ modal' = Append(modal, [kind |-> "error", msg |-> v.msg])
              /\ UNCHANGED wargs
         ELSE /\ wargs' = [wargs EXCEPT ![1] = BuildArgs(req[1].port, req[1].fw)]
              /\ UNCHANGED modal
    /\ fgpc' = "validated"
    /\ UNCHANGED <<uivars, q, pump_jobs, queues, wvars, nsess, req, emitted,
                   taken, fin>>

ValNext == ValApply

ValSpec == ValInit /\ [][ValNext]_vars

\* ------------------------------------------ run_esptool_inproc on its own
ErrImport == "ERROR: esptool import failed: No module named 'esptool'"

\* the ways a call of run_esptool_inproc can end: those of esptool.main, with
\* more exit codes, and the failure of "import esptool"
RunOutcomes ==
    ToolOutcomes
      \cup {[kind |-> "exit_int", code |-> c] : c \in {-1, 1, 2, 255}}
      \cup {[kind |-> "import_error", code |-> 0]}

\* what the sink holds when esptool.main ends
RunBufs == {"", "Leaving", "Hard resetting\r", "__DONE__"}

\* the whole of run_esptool_inproc: the import, then the call of esptool.main
run_esptool_inproc(o, buf) ==
    IF o.kind = "import_error"
    THEN [puts |-> <<ErrImport>>, buf |-> buf,
          flushed |-> FALSE, returns |-> TRUE, rc |-> 1]
    ELSE ToolEnd(o, buf)

\* a session whose worker has entered run_esptool_inproc: the sink holds an
\* unfinished line (none when the import is what fails), a poll is pending
RunInit ==
    /\ \E o \in RunOutcomes, buf \in RunBufs :
         /\ o.kind = "import_error" => buf = ""
         /\ tool_end = o
         /\ wbuf = [s \in Sessions |-> IF s = 1 THEN buf ELSE ""]
         /\ written = [s \in Sessions |-> IF s = 1 THEN buf ELSE ""]
         /\ nwrites = IF buf = "" THEN 0 ELSE 1
    /\ UIIs(StartUI(FreshUI, BuildArgs("COM3", "/fw.bin")))
    /\ q = 1
    /\ pump_jobs = 1
    /\ modal = <<>>
    /\ fgpc = "idle"
    /\ queues = [s \in Sessions |-> <<>>]
    /\ wpc = [s \in Sessions |-> IF s = 1 THEN "run" ELSE "none"]
    /\ wq = [s \in Sessions |-> IF s = 1 THEN 1 ELSE 0]
    /\ wrc = [s \in Sessions |-> 0]
    /\ nsess = 1
    /\ req = [s \in Sessions |->
                IF s = 1 THEN [avail |-> TRUE, port |-> "COM3", fw |-> "/fw.bin"]
                ELSE NoReq]
    /\ wargs = [s \in Sessions |->
                  IF s = 1 THEN BuildArgs("COM3", "/fw.bin") ELSE <<>>]
    /\ wlines = [s \in Sessions |-> <<>>]
    /\ wflushed = [s \in Sessions |-> ""]
    /\ emitted = [s \in Sessions |-> <<>>]
    /\ taken = [s \in Sessions |-> <<>>]
    /\ fin = [s \in Sessions |-> <<>>]

\* run_esptool_inproc ends as tool_end says
RunCall ==
    /\ wpc[1] = "run"
    /\ \E e \in {run_esptool_inproc(tool_end, wbuf[1])} :
         /\ wbuf' = [wbuf EXCEPT ![1] = e.buf]
         /\ Put(wq[1], AsLines(e.puts))
         /\ wflushed' = [wflushed EXCEPT ![1] = IF e.flushed THEN wbuf[1] ELSE ""]
         /\ wrc' = [wrc EXCEPT ![1] = e.rc]
         /\ wpc' = [wpc EXCEPT ![1] = IF e.returns THEN "returned" ELSE "dead"]
    /\ UNCHANGED <<uivars, fgvars, wq, nsess, nwrites, req, wargs, written,
                   wlines, taken, fin, tool_end>>

RunNext == RunCall \/ WorkerPost(1) \/ PumpQueue

RunSpec == RunInit /\ [][RunNext]_vars

\* ------------------------------- one line through _pump_queue on its own
\* the line the tool prints next
ClassifyLines ==
    {"Writing at 0x00010000... (37 %)", "Connecting....", "CONNECTING",
     "Wrote 8192 bytes, disconnecting", "Wrote 8192 bytes (100 %)",
     "Hash of data verified.", "Verified; writing at 0x10", "VERIFIED",
     "(150%)", "(007%)", "(64 %)\r", "Chip is ESP32 (revision 3)",
     "Leaving...", "__DONE__", "\r"}

\* the lines the tool printed before it, already taken by the poller
EarlierLines ==
    {<<>>, <<"Connecting....">>, <<"Writing at 0x00001000... (12 %)">>,
     <<"Hash of data verified.">>, <<"(64 %)">>, <<"Leaving...">>,
     <<"(64 %)", "Connecting....">>}

\* a session in progress: the poller has processed the earlier lines, the
\* next line waits in the queue and a poll is pending
LineInit ==
    /\ \E prev \in EarlierLines, l \in ClassifyLines :
         /\ UIIs(Drain(StartUI(FreshUI, BuildArgs("COM3", "/fw.bin")),
                       AsLines(prev), <<>>).ui)
         /\ taken = [s \in Sessions |-> IF s = 1 THEN AsLines(prev) ELSE <<>>]
         /\ queues = [s \in Sessions |-> IF s = 1 THEN <<LineMsg(l)>> ELSE <<>>]
         /\ emitted = [s \in Sessions |->
                         IF s = 1 THEN AsLines(prev) \o <<LineMsg(l)>> ELSE <<>>]
         /\ wlines = [s \in Sessions |-> IF s = 1 THEN prev \o <<l>> ELSE <<>>]
         /\ written = [s \in Sessions |->
                         IF s = 1 THEN JoinNL(prev \o <<l>>) ELSE ""]
         /\ nwrites = Len(prev) + 1
    /\ q = 1
    /\ pump_jobs = 1
    /\ modal = <<>>
    /\ fgpc = "idle"
    /\ wpc = [s \in Sessions |-> IF s = 1 THEN "tool" ELSE "none"]
    /\ wq = [s \in Sessions |-> IF s = 1 THEN 1 ELSE 0]
    /\ wbuf = [s \in Sessions |-> ""]
    /\ wrc = [s \in Sessions |-> 0]
    /\ nsess = 1
    /\ req = [s \in Sessions |->
                IF s = 1 THEN [avail |-> TRUE, port |-> "COM3", fw |-> "/fw.bin"]
                ELSE NoReq]
    /\ wargs = [s \in Sessions |->
                  IF s = 1 THEN BuildArgs("COM3", "/fw.bin") ELSE <<>>]
    /\ wflushed = [s \in Sessions |-> ""]
    /\ fin = [s \in Sessions |-> <<>>]
    /\ tool_end = NoOutcome

LineNext == PumpQueue

LineSpec == LineInit /\ [][LineNext]_vars

\* ------------------------------------------------------- history operators
Last(seq) == seq[Len(seq)]

NumDone(msgs) == Cardinality({i \in 1..Len(msgs) : IsDone(msgs[i])})

\* the text messages among msgs, in order
RECURSIVE Texts(_)
Texts(msgs) ==
    IF msgs = <<>> THEN <<>>
    ELSE IF IsDone(Head(msgs)) THEN Texts(Tail(msgs))
    ELSE <<Head(msgs).text>> \o Texts(Tail(msgs))

\* every line followed by a newline, concatenated
RECURSIVE Join(_)
Join(lines) == IF lines = <<>> THEN "" ELSE Head(lines) \o "\n" \o Join(Tail(lines))

\* one log entry per text, carriage returns at the end removed
RECURSIVE EntriesAll(_)
EntriesAll(texts) ==
    IF texts = <<>> THEN <<>>
    ELSE <<RStripCR(Head(texts)) \o "\n">> \o EntriesAll(Tail(texts))

\* one log entry per text that is not empty once its trailing carriage
\* returns are removed
RECURSIVE EntriesKept(_)
EntriesKept(texts) ==
    IF texts = <<>> THEN <<>>
    ELSE IF RStripCR(Head(texts)) = "" THEN EntriesKept(Tail(texts))
    ELSE <<RStripCR(Head(texts)) \o "\n">> \o EntriesKept(Tail(texts))

StartBanner == "\n=== UPDATE START ===\n"
FinishBanners == {"\n=== UPDATE COMPLETE ===\n", "\n=== UPDATE FAILED ===\n"}

\* position in the log of the start banner of session s (sessions 1..nsess)
StartPos(s) ==
    CHOOSE i \in 1..Len(log) :
        /\ log[i] = StartBanner
        /\ Cardinality({k \in 1..i : log[k] = StartBanner}) = s

\* the log entries written for the output lines of session s: what follows
\* the start banner and the command, up to the finish banner
LogBody(s) ==
    LET from == StartPos(s) + 2
        to == IF s < nsess THEN StartPos(s + 1) - 1 ELSE Len(log)
        seg == SubSeq(log, from, to)
    IN IF seg # <<>> /\ Last(seg) \in FinishBanners
       THEN SubSeq(seg, 1, Len(seg) - 1) ELSE seg

Started == 1..nsess
PollPending == fgpc = "start_pump" \/ pump_jobs > 0
WorkerAlive(s) == wpc[s] \in {"spawned", "tool", "returned"}
Active(s) == s \in Started /\ fin[s] = <<>>

\* ------------------------------------------------------------------- claims

\* C1: in every session the worker posts at most one terminal marker and the
\* poller calls at most one of _finish_ok/_finish_fail, at most once; once
\* run_esptool_inproc has returned the marker goes to the polled queue, and
\* once it is posted either the finish call has happened or the marker waits
\* in the polled queue with a poll pending, so exactly one finish call follows.
C1_FinishExactlyOnce ==
    \A s \in Sessions :
        /\ NumDone(emitted[s]) <= 1
        /\ Len(fin[s]) <= 1
        /\ fin[s] # <<>> => wpc[s] = "done" /\ NumDone(taken[s]) = 1
        /\ wpc[s] = "returned" => q = s /\ NumDone(emitted[s]) = 0
        /\ wpc[s] = "done" =>
              /\ NumDone(emitted[s]) = 1
              /\ \/ Len(fin[s]) = 1
                 \/ /\ q = s
                    /\ queues[s] # <<>> /\ IsDone(Last(queues[s]))
                    /\ PollPending

C1_Witness ==
    /\ nsess = 2
    /\ fin[1] = <<"fail">>
    /\ fin[2] = <<"ok">>
    /\ wpc[1] = "done" /\ wpc[2] = "done"

\* C2: the poller takes the messages of a queue in the order they were put,
\* the terminal marker is the last message put on a queue and the last one
\* taken, and the log holds the lines of each session in the order taken.
C2_FifoOrder ==
    \A s \in Sessions :
        /\ taken[s] \o queues[s] = emitted[s]
        /\ \A i \in 1..Len(emitted[s]) : IsDone(emitted[s][i]) => i = Len(emitted[s])
        /\ s \in Started => LogBody(s) = EntriesKept(Texts(taken[s]))

C2_Witness ==
    /\ fin[1] = <<"ok">>
    /\ Texts(taken[1]) = <<"Connecting...", "Writing at 0x1000 (50 %)\r">>
    /\ LogBody(1) = <<"Connecting...\n", "Writing at 0x1000 (50 %)\n">>
    /\ IsDone(Last(taken[1]))
    /\ status_var = "Update complete."
    /\ progress_value = 100

\* C3: at most one session is active, at most one worker thread is alive, and
\* a live worker writes to, and will post on, the queue that is being polled.
C3_OneWorker ==
    /\ Cardinality({s \in Sessions : WorkerAlive(s)}) <= 1
    /\ Cardinality({s \in Sessions : Active(s)}) <= 1
    /\ \A s \in Sessions :
          WorkerAlive(s) =>
              /\ Active(s)
              /\ q = s
              /\ wpc[s] \in {"tool", "returned"} => wq[s] = s

C3_Witness ==
    /\ nsess = 2
    /\ fin[1] # <<>>
    /\ wpc[2] = "tool"
    /\ written[2] # ""

ValidReq(r) ==
    /\ r.avail
    /\ Strip(r.port) # ""
    /\ Strip(r.fw) # ""
    /\ Exists(ExpandUser(Strip(r.fw)))
    /\ looks_like_binary(ExpandUser(Strip(r.fw)))

ErrorBoxOpens ==
    /\ Len(modal') = Len(modal) + 1
    /\ Last(modal').kind = "error"

\* C4: a start request that fails validation only reports a reason: no queue,
\* worker or poll is created and the button, meter, status and log stay as
\* they were; and only requests that pass validation start a session.
C4_FailedStartFrame ==
    [][ /\ ErrorBoxOpens =>
             UNCHANGED <<update_btn, progress_mode, progress_anim, progress_value,
                         saw_percent, status_var, log, q, pump_jobs, queues,
                         wpc, wq, wbuf, wrc, nsess, emitted, taken, fin>>
        /\ nsess' # nsess => ValidReq(req'[nsess']) ]_vars

C4_Witness ==
    /\ modal # <<>>
    /\ Last(modal).kind = "error"
    /\ Last(modal).msg = MsgNoPort
    /\ nsess = 1
    /\ fin[1] # <<>>
    /\ q = 0

\* the five checks of validation in the order the claim lists them, and the
\* reason each reports
C5_Checks(r) ==
    <<r.avail,
      Strip(r.port) # "",
      Strip(r.fw) # "",
      Exists(ExpandUser(Strip(r.fw))),
      looks_like_binary(ExpandUser(Strip(r.fw)))>>

C5_Reasons(r) ==
    <<MsgNoTool, MsgNoPort, MsgNoFw,
      MsgNotFound(ExpandUser(Strip(r.fw))),
      MsgNotBinary(ExpandUser(Strip(r.fw)))>>

C5_FirstFailing(r) ==
    IF \A i \in 1..5 : C5_Checks(r)[i] THEN 0
    ELSE CHOOSE i \in 1..5 :
            ~C5_Checks(r)[i] /\ \A k \in 1..(i - 1) : C5_Checks(r)[k]

\* C5: validation reports the reason of the first failing check in the order
\* tool available, port not empty, firmware path not empty, firmware exists,
\* firmware looks like a binary (fields compared after trimming), and it
\* succeeds exactly when all five hold.
C5_ValidationOrder ==
    fgpc = "validated" =>
        IF C5_FirstFailing(req[1]) = 0
        THEN modal = <<>> /\ wargs[1] # <<>>
        ELSE /\ wargs[1] = <<>>
             /\ modal = <<[kind |-> "error",
                           msg |-> C5_Reasons(req[1])[C5_FirstFailing(req[1])]]>>

C5_Witness ==
    /\ fgpc = "validated"
    /\ ~req[1].avail
    /\ req[1].port = ""
    /\ req[1].fw = "/small.bin"
    /\ modal # <<>>

\* C6: once the terminal marker of the current session is processed, code 0
\* leaves "Update complete." with the meter at 100 and any other code leaves
\* "Update failed." with the meter at 0, whatever percentages were shown.
C6_FinalByCode ==
    \A s \in Sessions :
        (s = nsess /\ fin[s] # <<>>) =>
            /\ progress_mode = "determinate"
            /\ update_btn = "normal"
            /\ IF Last(taken[s]).rc = 0
               THEN /\ fin[s] = <<"ok">>
                    /\ status_var = "Update complete."
                    /\ progress_value = 100
               ELSE /\ fin[s] = <<"fail">>
                    /\ status_var = "Update failed."
                    /\ progress_value = 0

C6_Witness ==
    /\ nsess = 1
    /\ fin[1] = <<"fail">>
    /\ Last(taken[1]).rc = 7
    /\ saw_percent
    /\ "Writing at 0x1000 (50 %)\r" \in {Texts(taken[1])[i] : i \in 1..Len(Texts(taken[1]))}
    /\ progress_value = 0

\* C7 as stated: when the terminal marker of a session has been processed the
\* log holds one entry for every text line put on the session's queue, empty
\* lines included.
C7_EveryLineLogged ==
    \A s \in Sessions :
        fin[s] # <<>> => LogBody(s) = EntriesAll(Texts(emitted[s]))

\* C7 amended: when the terminal marker of a session has been processed the
\* log holds, in order and exactly once, every text line put on the session's
\* queue that is not empty after its trailing carriage returns are removed;
\* lines that are empty then are not logged.
C7_NonEmptyLinesLogged ==
    \A s \in Sessions :
        fin[s] # <<>> => LogBody(s) = EntriesKept(Texts(emitted[s]))

C7_Witness ==
    /\ fin[1] # <<>>
    /\ Texts(emitted[1]) = <<"", "Connecting...">>
    /\ LogBody(1) = <<"Connecting...\n">>

\* C8: for any writes followed by one flush, the lines put by write, each
\* followed by a newline, then the remainder (flushed, or still buffered),
\* spell exactly what was written; no complete segment stays in the buffer
\* after a write, and the queue holds the lines in order.
C8_SinkRoundTrip ==
    /\ Join(wlines[1]) \o (IF wpc[1] = "flushed" THEN wflushed[1] ELSE wbuf[1])
         = written[1]
    /\ IndexOf(wbuf[1], "\n") = 0
    /\ \A i \in 1..Len(wlines[1]) : IndexOf(wlines[1][i], "\n") = 0
    /\ wpc[1] = "flushed" => wbuf[1] = ""
    /\ emitted[1] = AsLines(wlines[1])
                      \o (IF wpc[1] = "flushed" /\ wflushed[1] # ""
                          THEN <<LineMsg(wflushed[1])>> ELSE <<>>)

C8_Witness ==
    /\ wpc[1] = "flushed"
    /\ written[1] = "a\n\nb\nab"
    /\ wlines[1] = <<"a", "", "b">>
    /\ wflushed[1] = "ab"

\* C9: when run_esptool_inproc has returned, whatever the way esptool.main
\* ended, everything the tool wrote is on the queue: the lines put by write
\* and the flushed remainder spell exactly what was written.
C9_FlushedOnEveryExit ==
    \A s \in Sessions :
        wpc[s] \in {"returned", "done"} =>
            Join(wlines[s]) \o wflushed[s] = written[s]

\* C10: every error raised in the worker is caught and turned into a log line
\* and a nonzero code, so no worker thread ends without having posted its
\* terminal marker.
C10_WorkerAlwaysPosts ==
    \A s \in Sessions : wpc[s] # "dead"

\* ---------------------------------------------------------------------- C11
\* C11: the result code of the flasher invocation follows a fixed mapping:
\* normal return gives 0, SystemExit without a code gives 0, with an integer
\* code gives that integer, with any other payload gives 1, and any other
\* exception or a failed import gives a nonzero code; the session succeeds
\* exactly when the code is 0.
C11_ResultCode ==
    wpc[1] # "run" =>
      /\ wpc[1] \in {"returned", "done"}
      /\ tool_end.kind \in {"return", "exit_none"} => wrc[1] = 0
      /\ tool_end.kind = "exit_int" => wrc[1] = tool_end.code
      /\ tool_end.kind = "exit_other" => wrc[1] = 1
      /\ tool_end.kind \in {"exception", "base_exception", "import_error"}
           => wrc[1] # 0
      /\ fin[1] # <<>> => (fin[1] = <<"ok">> <=> wrc[1] = 0)

\* ---------------------------------------------------------------------- C12
\* C12 as stated: once a later session has started, the log holds no entry of
\* an earlier session: its first entry is the start banner of the session in
\* progress.
C12_PreviousLogDropped ==
    nsess >= 2 => StartPos(nsess) = 1

\* C12 amended: the log is never emptied. Every step keeps the entries the log
\* already has, in place, and an accepted start request appends the start
\* banner and the command after them.
C12_PreviousLogKept ==
    [][/\ Len(log') >= Len(log)
       /\ SubSeq(log', 1, Len(log)) = log
       /\ nsess' # nsess =>
            log' = log \o <<StartBanner, "Command:\n  esptool "
                                           \o JoinSp(wargs'[nsess']) \o "\n\n">>]_vars

C12_Witness ==
    /\ nsess = 2
    /\ Active(2)
    /\ wpc[2] = "tool"
    /\ fin[1] = <<"fail">>
    /\ LogBody(1) = <<"Connecting...\n", ErrRuntime \o "\n">>
    /\ StartPos(2) = 6

\* ---------------------------------------------------------------------- C13
\* the line _pump_queue makes of a text message carries a percentage
HasPercent(text) == PERCENT_RE(RStripCR(text)) # ""

\* a line carrying a percentage has been processed in session s
PercentSeen(s) ==
    \E i \in 1..Len(taken[s]) : ~IsDone(taken[s][i]) /\ HasPercent(taken[s][i].text)

\* C13: the meter is indeterminate exactly while a session is in progress and
\* no line carrying a percentage has been processed in it: a session starts
\* indeterminate, becomes determinate with its first percentage and stays so
\* to its end and after it, until a later session starts.
C13_DeterminateOnceSeen ==
    /\ progress_mode = "indeterminate"
         <=> (nsess >= 1 /\ Active(nsess) /\ ~PercentSeen(nsess))
    /\ progress_anim <=> progress_mode = "indeterminate"

C13_Witness ==
    /\ Active(1)
    /\ Texts(taken[1]) = <<"Writing at 0x1000 (50 %)\r", ErrRuntime>>
    /\ progress_mode = "determinate"

\* ---------------------------------------------------------------------- C14
\* the poller takes the only message of queue 1, the text message of l
Processes(l) == queues[1] = <<LineMsg(l)>> /\ queues'[1] = <<>>

\* C14 as stated: processing "Writing at 0x00010000... (37 %)" sets the
\* percentage to 37 and leaves the status phase as it was before.
C14_PhaseUnaffected ==
    [][Processes("Writing at 0x00010000... (37 %)") =>
         progress_value' = 37 /\ status_var' = status_var]_vars

\* C14 amended: processing "Writing at 0x00010000... (37 %)" sets the
\* percentage to 37 (on a determinate meter) and sets the status phase to
\* Writing, whatever it was before; nothing else but the log entry changes.
C14_PhaseBecomesWriting ==
    [][Processes("Writing at 0x00010000... (37 %)") =>
         /\ progress_value' = 37
         /\ progress_mode' = "determinate"
         /\ status_var' = "Writing firmware..."
         /\ log' = Append(log, "Writing at 0x00010000... (37 %)\n")
         /\ UNCHANGED <<update_btn, q, modal>>]_vars

C14_Witness ==
    /\ Texts(taken[1]) = <<"(64 %)", "Connecting....", "Writing at 0x00010000... (37 %)">>
    /\ queues[1] = <<>>
    /\ progress_value = 37
    /\ status_var = "Writing firmware..."

\* ---------------------------------------------------------------------- C16
\* kw occurs in line, whatever the case of the letters of line
ContainsCI(line, kw) ==
    \E i \in 1..(Len(line) - Len(kw) + 1) :
        Lower(SubSeq(line, i, i + Len(kw) - 1)) = kw

\* the phase after a line, by the priority Connecting, Writing, Verifying
PhaseAfter(line, before) ==
    CASE ContainsCI(line, "connecting") -> "Connecting..."
      [] ~ContainsCI(line, "connecting")
           /\ (ContainsCI(line, "writing at") \/ ContainsCI(line, "wrote"))
           -> "Writing firmware..."
      [] ~ContainsCI(line, "connecting")
           /\ ~(ContainsCI(line, "writing at") \/ ContainsCI(line, "wrote"))
           /\ (ContainsCI(line, "hash of data verified") \/ ContainsCI(line, "verified"))
           -> "Verifying..."
      [] OTHER -> before

\* C16: the phase after a line is processed is decided by case-insensitive
\* substring match with the priority Connecting, Writing, Verifying, whether
\* or not the line carries a percentage; a line with none of the keywords
\* leaves the phase as it was, and when it carries no percentage either it
\* changes nothing but the log, which every processed line extends.
C16_Classification ==
    [][\A l \in ClassifyLines :
         Processes(l) /\ RStripCR(l) # "" =>
           /\ status_var' = PhaseAfter(RStripCR(l), status_var)
           /\ log' = Append(log, RStripCR(l) \o "\n")
           /\ (PhaseAfter(RStripCR(l), "") = "" /\ ~HasPercent(l)) =>
                UNCHANGED <<update_btn, progress_mode, progress_anim,
                            progress_value, saw_percent, status_var, q, modal>>]_vars

C16_Witness ==
    /\ Texts(taken[1]) = <<"Hash of data verified.", "Wrote 8192 bytes, disconnecting">>
    /\ queues[1] = <<>>
    /\ status_var = "Connecting..."

\* ---------------------------------------------------------------------- C17
\* the number in the last line with a percentage processed in session s
LastPercent(s) ==
    LET i == CHOOSE i \in 1..Len(taken[s]) :
                 /\ ~IsDone(taken[s][i]) /\ HasPercent(taken[s][i].text)
                 /\ \A k \in (i + 1)..Len(taken[s]) :
                        IsDone(taken[s][k]) \/ ~HasPercent(taken[s][k].text)
    IN ToInt(PERCENT_RE(RStripCR(taken[s][i].text)))

\* C17: the value of the meter is an integer from 0 to 100, and while a
\* session is in progress in which a percentage has been processed it is the
\* number of the last such line, or 100 when that number is above 100.
C17_PercentShown ==
    /\ progress_value \in 0..100
    /\ \A s \in Started :
         Active(s) /\ PercentSeen(s) =>
           progress_value = IF LastPercent(s) > 100 THEN 100 ELSE LastPercent(s)

C17_Witness ==
    /\ Active(1)
    /\ Texts(taken[1]) = <<"(64 %)", "(150%)">>
    /\ progress_value = 100

\* ---------------------------------------------------------------------- C18
\* C18: text the tool writes is never taken for the terminal marker. The only
\* marker on a queue is the one the worker posts, as the last message; a
\* session is finished only when the worker has posted and the poller has
\* taken that marker, with the result the worker's code gives; until then the
\* session stays in progress, whatever text (the text __DONE__ too) the
\* poller has processed.
C18_NoForgedMarker ==
    \A s \in Sessions :
        /\ \A i \in 1..Len(emitted[s]) :
              emitted[s][i].tag = "done" => i = Len(emitted[s]) /\ wpc[s] = "done"
        /\ fin[s] # <<>> =>
              /\ wpc[s] = "done"
              /\ Last(taken[s]) = DoneMsg(wrc[s])
              /\ fin[s] = <<IF wrc[s] = 0 THEN "ok" ELSE "fail">>
        /\ (s = nsess /\ wpc[s] # "done") =>
              fin[s] = <<>> /\ update_btn = "disabled" /\ q = s /\ modal = <<>>

C18_Witness ==
    /\ taken[1] = <<LineMsg("__DONE__")>>
    /\ log[Len(log)] = "__DONE__\n"
    /\ wpc[1] = "returned"
    /\ wrc[1] = 7
    /\ fin[1] = <<>>
    /\ update_btn = "disabled"

\* ---------------------------------------------------------------------- C19
\* C19: at most one poll of _pump_queue is pending. While a session is in
\* progress exactly one poll is pending or about to run (start_update is about
\* to call _pump_queue). When no session is in progress no poll is pending,
\* and the queue reference is cleared as soon as the message box of the
\* finish routine has returned.
C19_PollTiedToSession ==
    /\ pump_jobs \in {0, 1}
    /\ \A s \in Started :
         Active(s) =>
           \/ fgpc = "start_pump" /\ pump_jobs = 0
           \/ fgpc = "idle" /\ pump_jobs = 1
    /\ (nsess = 0 \/ ~Active(nsess)) =>
         /\ pump_jobs = 0
         /\ fgpc = "idle"
         /\ q # 0 => (q = nsess /\ Len(modal) = 1 /\ modal[1].kind \in {"ok", "fail"})

C19_Witness ==
    /\ nsess = 2
    /\ fin[1] = <<"ok">>
    /\ Active(2)
    /\ q = 2
    /\ fgpc = "idle"
    /\ pump_jobs = 1

\* ---------------------------------------------------------------------- C20
\* C20: when validation accepts the inputs, the firmware path in the argument
\* list is the absolute form of the path validate_inputs checked (the field
\* without surrounding whitespace, user directory expanded), and the port in
\* the argument list is the port validate_inputs checked.
C20_ValidatedPathFlashed ==
    (fgpc = "validated" /\ wargs[1] # <<>>) =>
        /\ wargs[1][9] = Resolve(ExpandUser(Strip(req[1].fw)))
        /\ wargs[1][4] = Strip(req[1].port)

\* ---------------------------------------------------------------------- C15
\* C15: once the flasher invocation of a session has ended, with whatever code
\* or exception, the session has finished or is bound to: the worker is about
\* to post the marker on the polled queue, or the marker waits there with a
\* poll pending. A finished session leaves the button enabled, and once its
\* message box is closed a start request is accepted again.
C15_FailureRecovers ==
    \A s \in Started :
        wpc[s] \notin {"spawned", "tool"} =>
          /\ \/ fin[s] # <<>>
             \/ wpc[s] = "returned" /\ q = s
             \/ /\ wpc[s] = "done" /\ q = s
                /\ queues[s] # <<>> /\ IsDone(Last(queues[s]))
                /\ PollPending
          /\ (s = nsess /\ fin[s] # <<>>) =>
                /\ update_btn = "normal"
                /\ modal = <<>> => (q = 0 /\ CanClick)

====
